---------------------------- MODULE Spec2Model ----------------------------
(***************************************************************************)
(* Model of iminuit's interactive Qt fitting widget                        *)
(* (src/src/iminuit/qtwidget.py): the FloatSlider, the Parameter panel and *)
(* the MainWindow session, over a minimizer that is a store of values,     *)
(* limits and fixed flags with a fit operation.                            *)
(*                                                                         *)
(* Numbers.  A Python float is modelled as an integer count of 1/SCALE     *)
(* units that has at most Precision significant bits; every arithmetic     *)
(* operation of the source rounds its exact result to the nearest such     *)
(* number, ties to even, as IEEE-754 arithmetic does (with 53 bits).       *)
(* Inf stands for float("inf") and is only ever compared, never computed   *)
(* with.                                                                   *)
(*                                                                         *)
(* Control.  Each user event is one action.  Handlers are operators from   *)
(* a "world" record (all widget and minimizer state, the log of what the   *)
(* handler did so far, and the outcome the environment has chosen for the  *)
(* minimizer and the plot routine) to the world after the handler.  Qt     *)
(* signals are synchronous calls of the connected slots, so a handler's    *)
(* operator contains everything that the event sets off.                   *)
(***************************************************************************)
EXTENDS Integers, Sequences, FiniteSets, TLC

\* ------------------------------------------------------------------ bounds

\* Significant bits of a float (53 in the program).
Precision == 3

\* Binary digits after the point that a float can hold at all.
ScaleBits == 3

\* Steps of the integer slider (int(1e8) in the program).
RES == 4

\* User events per session.
MaxEvents == 3

RECURSIVE Pow2(_)
Pow2(n) == IF n = 0 THEN 1 ELSE 2 * Pow2(n - 1)

SCALE == Pow2(ScaleBits)

\* The float with real value n, n an integer.
U(n) == n * SCALE

\* sys.float_info.max and float("inf").
FloatMax == U(64)
Inf == FloatMax + 1

\* None, for an optional argument that is absent.
None == Inf + 1

\* minuit.parameters, in declaration order, and as a set.
parameters == <<1, 2>>
Pars == {parameters[k] : k \in DOMAIN parameters}

\* ------------------------------------------------------- float arithmetic

Abs(x) == IF x < 0 THEN -x ELSE x

\* Nearest integer to num/den (num >= 0, den > 0), ties to even.
RoundHalfEven(num, den) ==
    LET f == num \div den
        r == num % den
    IN  IF 2 * r < den THEN f
        ELSE IF 2 * r > den THEN f + 1
        ELSE IF f % 2 = 0 THEN f ELSE f + 1

\* Spacing of the floats around num/den (num >= 0): the least power of two
\* q >= 1 for which num/den/q has at most Precision bits before the point.
RECURSIVE Quantum(_, _, _)
Quantum(num, den, q) ==
    IF num < Pow2(Precision) * q * den THEN q ELSE Quantum(num, den, 2 * q)

\* Faulty variant of Fl: truncation instead of rounding to nearest.
FlChop(num, den) ==
    LET a == Abs(num)
        q == Quantum(a, den, 1)
        m == q * (a \div (den * q))
    IN  IF num < 0 THEN -m ELSE m

\* The float nearest to the exact value num/den units (den > 0).
Fl(num, den) ==
    LET a == Abs(num)
        q == Quantum(a, den, 1)
        m == q * RoundHalfEven(a, den * q)
    IN  IF num < 0 THEN -m ELSE m

IsFloat(x) == Fl(x, 1) = x

FAdd(a, b) == Fl(a + b, 1)
FSub(a, b) == Fl(a - b, 1)
FMul(a, b) == Fl(a * b, SCALE)
FDiv(a, b) == IF b < 0 THEN Fl(-(a * SCALE), -b) ELSE Fl(a * SCALE, b)

\* float(n) and int(x) (truncation toward zero).
IntToFloat(n) == Fl(n * SCALE, 1)
FloatToInt(x) == IF x < 0 THEN -((-x) \div SCALE) ELSE x \div SCALE

IsFinite(x) == x # Inf /\ x # -Inf


\* ------------------------------------------------------------------ state

VARIABLES
    slider,     \* per parameter: the FloatSlider of its panel
    panel,      \* per parameter: the other widgets and fields of its panel
    minuit,     \* the minimizer: values, limits, fixed flags, fit status
    win,        \* the MainWindow: snapshot, controls, configuration
    log,        \* what the last event's handler did
    ev,         \* the last event
    nev         \* number of events so far

vars == <<slider, panel, minuit, win, log, ev, nev>>

\* A log with nothing in it.
\*   emitted:   <<parameter, value>> of every floatValueChanged delivered
\*   callbacks: calls of the panel-change callback
\*   fits:      the fixed flags the minimizer saw, one entry per fit run
\*   drawn:     one entry per call of the plot routine
\*   results:   refreshes of the results tab
EmptyLog ==
    [emitted |-> <<>>, callbacks |-> 0, fits |-> <<>>, drawn |-> <<>>, results |-> 0]

\* The world a handler starts in: the current state, an empty log and the
\* outcome o that the minimizer and the plot routine will have.
Begin(o) ==
    [slider |-> slider, panel |-> panel, minuit |-> minuit, win |-> win,
     log |-> EmptyLog, oracle |-> o, exc |-> FALSE, ret |-> FALSE]

\* ------------------------------------------------------------ the minimizer

\* Faulty variant of Minimize: the fit moves fixed parameters too.
MinimizeAll(w) ==
    LET m == w.minuit
        clip(i) == LET t  == w.oracle.target[i]
                       lo == m.limits[i][1]
                       hi == m.limits[i][2]
                   IN  IF t < lo THEN lo ELSE IF t > hi THEN hi ELSE t
    IN  [w EXCEPT !.minuit.values = [i \in Pars |-> clip(i)],
                  !.minuit.valid = w.oracle.valid,
                  !.minuit.accurate = w.oracle.accurate,
                  !.log.fits = Append(@, m.fixed)]

\* minuit.migrad() / scipy() / simplex(): every parameter that is not fixed
\* moves to the point the minimizer finds, which lies within its limits
\* (the target the environment chose, projected onto the limits); the
\* validity flags are those of this run.
Minimize(w) ==
    LET m == w.minuit
        clip(i) == LET t  == w.oracle.target[i]
                       lo == m.limits[i][1]
                       hi == m.limits[i][2]
                   IN  IF t < lo THEN lo ELSE IF t > hi THEN hi ELSE t
    IN  [w EXCEPT !.minuit.values =
                      [i \in Pars |-> IF m.fixed[i] THEN m.values[i] ELSE clip(i)],
                  !.minuit.valid = w.oracle.valid,
                  !.minuit.accurate = w.oracle.accurate,
                  !.log.fits = Append(@, m.fixed)]

\* minuit.reset(): the optimizer state (the last fit's status) is forgotten.
MinuitReset(w) == [w EXCEPT !.minuit.valid = FALSE, !.minuit.accurate = FALSE]

\* ------------------------------------------------------------- MainWindow

\* Faulty variant of fit: Simplex reports success like the others.
fitAlwaysReports(w) == [Minimize(w) EXCEPT !.ret = TRUE]

\* MainWindow.fit: runs the chosen algorithm; returns whether to report.
fit(w) ==
    LET w1 == Minimize(w)
    IN  [w1 EXCEPT !.ret = (w.win.algo # "Simplex")]

\* Faulty variant of plot_with_frame: the status overlay ignores the accuracy.
plot_with_frame_valid_only(w, from_fit, report_success) ==
    IF w.oracle.plotRaises
    THEN IF w.win.raise_on_exception
         THEN [w EXCEPT !.exc = TRUE,
                        !.log.drawn = Append(@, [kind |-> "raised", fcn |-> FALSE,
                                                 status |-> "none"])]
         ELSE [w EXCEPT !.log.drawn = Append(@, [kind |-> "traceback", fcn |-> FALSE,
                                                 status |-> "none"])]
    ELSE [w EXCEPT !.log.drawn =
             Append(@, [kind |-> "plot", fcn |-> TRUE,
                        status |-> IF from_fit /\ report_success
                                   THEN IF w.minuit.valid
                                        THEN "success" ELSE "FAILURE"
                                   ELSE "none"])]

\* Faulty variant of plot_with_frame: after drawing the traceback it goes on
\* to the overlays instead of returning.
plot_with_frame_no_return(w, from_fit, report_success) ==
    IF w.oracle.plotRaises /\ w.win.raise_on_exception
    THEN [w EXCEPT !.exc = TRUE,
                   !.log.drawn = Append(@, [kind |-> "raised", fcn |-> FALSE,
                                            status |-> "none"])]
    ELSE [w EXCEPT !.log.drawn =
             Append(@, [kind |-> IF w.oracle.plotRaises THEN "traceback" ELSE "plot",
                        fcn |-> TRUE,
                        status |-> IF from_fit /\ report_success
                                   THEN IF w.minuit.valid /\ w.minuit.accurate
                                        THEN "success" ELSE "FAILURE"
                                   ELSE "none"])]

\* MainWindow.plot_with_frame: calls the plot routine; if it raises, either
\* re-raises or draws the traceback and returns; else draws the FCN overlay
\* and, after a reporting fit, the status overlay.
plot_with_frame(w, from_fit, report_success) ==
    IF w.oracle.plotRaises
    THEN IF w.win.raise_on_exception
         THEN [w EXCEPT !.exc = TRUE,
                        !.log.drawn = Append(@, [kind |-> "raised", fcn |-> FALSE,
                                                 status |-> "none"])]
         ELSE [w EXCEPT !.log.drawn = Append(@, [kind |-> "traceback", fcn |-> FALSE,
                                                 status |-> "none"])]
    ELSE [w EXCEPT !.log.drawn =
             Append(@, [kind |-> "plot", fcn |-> TRUE,
                        status |-> IF from_fit /\ report_success
                                   THEN IF w.minuit.valid /\ w.minuit.accurate
                                        THEN "success" ELSE "FAILURE"
                                   ELSE "none"])]

\* The handlers call each other in a cycle: a slider that moves emits its
\* signal, the panel's slot calls the window's callback, which may fit and then
\* resets the panels, which sets the sliders.
RECURSIVE on_parameter_change(_, _, _)
RECURSIVE on_val_change(_, _, _)
RECURSIVE floatValueChanged_emit(_, _, _)
RECURSIVE _emit_float_value_changed(_, _, _)
RECURSIVE QSlider_setValue(_, _, _)
RECURSIVE setValue(_, _, _)
RECURSIVE setMinimum(_, _, _)
RECURSIVE setMaximum(_, _, _)
RECURSIVE reset(_, _, _, _)
RECURSIVE do_fit(_, _)

\* ------------------------------------------------------------ FloatSlider

\* FloatSlider.__init__
NewSlider ==
    [min |-> U(0), max |-> U(1), value |-> SCALE \div 2, pos |-> RES \div 2,
     blocked |-> FALSE, enabled |-> TRUE, tracking |-> TRUE]

\* Parameter.on_val_change
on_val_change(w, i, val) ==
    LET w1 == [w EXCEPT !.minuit.values[i] = val,
                        !.log.callbacks = @ + 1]
    IN  on_parameter_change(w1, FALSE, FALSE)

\* self.floatValueChanged.emit(val): nothing while the slider's signals are
\* blocked; else every connected slot runs (Parameter.__init__ connects
\* on_val_change at the end of the panel's construction).
floatValueChanged_emit(w, i, val) ==
    IF w.slider[i].blocked THEN w
    ELSE LET w1 == [w EXCEPT !.log.emitted = Append(@, <<i, val>>)]
         IN  IF w.panel[i].connected THEN on_val_change(w1, i, val) ELSE w1

\* Faulty variant of _int_to_float: the exact product, without the float rounding
\* of (max - min).
_int_to_float_exact(s, value) ==
    Fl(s.min * RES + value * (s.max - s.min), RES)

\* FloatSlider._int_to_float
_int_to_float(s, value) ==
    FAdd(s.min, FMul(FDiv(IntToFloat(value), IntToFloat(RES)), FSub(s.max, s.min)))

\* FloatSlider._float_to_int
_float_to_int(s, value) ==
    FloatToInt(FMul(FDiv(FSub(value, s.min), FSub(s.max, s.min)), IntToFloat(RES)))

\* FloatSlider._emit_float_value_changed (value = None: no argument)
_emit_float_value_changed(w, i, value) ==
    LET emit(w1) == floatValueChanged_emit(w1, i, w1.slider[i].value)
    IN  emit(IF value # None
             THEN [w EXCEPT !.slider[i].value = _int_to_float(w.slider[i], value)]
             ELSE w)

\* The position that QSlider.setValue(p) moves to: p bounded to the integer range.
QSlider_bound(p) == IF p < 0 THEN 0 ELSE IF p > RES THEN RES ELSE p

\* QSlider.setValue (super().setValue): bounds the position to the integer
\* range and, if it changed and signals are not blocked, emits valueChanged,
\* to which _emit_float_value_changed is connected.
QSlider_setValue(w, i, p) ==
    IF QSlider_bound(p) = w.slider[i].pos THEN w
    ELSE IF w.slider[i].blocked THEN [w EXCEPT !.slider[i].pos = QSlider_bound(p)]
    ELSE _emit_float_value_changed([w EXCEPT !.slider[i].pos = QSlider_bound(p)],
                                   i, QSlider_bound(p))

\* Faulty variant of setValue: no clamping at the upper bound.
setValueNoUpperClamp(w, i, value) ==
    IF value < w.slider[i].min
    THEN LET then(w2) == IF w2.exc THEN w2 ELSE _emit_float_value_changed(w2, i, None)
         IN  then(QSlider_setValue([w EXCEPT !.slider[i].value = w.slider[i].min], i, 0))
    ELSE [w EXCEPT !.slider[i].value = value,
                   !.slider[i].pos = QSlider_bound(_float_to_int(w.slider[i], value)),
                   !.slider[i].blocked = FALSE]

\* Faulty variant of setValue: within the window the position is set without
\* blocking the signals.
setValueUnblocked(w, i, value) ==
    IF value < w.slider[i].min \/ value > w.slider[i].max
    THEN LET below == value < w.slider[i].min
             then(w2) == IF w2.exc THEN w2 ELSE _emit_float_value_changed(w2, i, None)
         IN  then(QSlider_setValue(
                      [w EXCEPT !.slider[i].value =
                                    IF below THEN w.slider[i].min ELSE w.slider[i].max],
                      i, IF below THEN 0 ELSE RES))
    ELSE QSlider_setValue([w EXCEPT !.slider[i].value = value], i,
                          _float_to_int(w.slider[i], value))

\* FloatSlider.setValue.  Below min and above max: _value is the bound,
\* super().setValue moves to the end of the integer range, then
\* _emit_float_value_changed() is called without a value.  Within the window:
\* _value is the argument and the position is set with the signals blocked,
\* so nothing is emitted, and the signals are unblocked.
setValue(w, i, value) ==
    IF value < w.slider[i].min \/ value > w.slider[i].max
    THEN LET below == value < w.slider[i].min
             then(w2) == IF w2.exc THEN w2 ELSE _emit_float_value_changed(w2, i, None)
         IN  then(QSlider_setValue(
                      [w EXCEPT !.slider[i].value =
                                    IF below THEN w.slider[i].min ELSE w.slider[i].max],
                      i, IF below THEN 0 ELSE RES))
    ELSE [w EXCEPT !.slider[i].value = value,
                   !.slider[i].pos = QSlider_bound(_float_to_int(w.slider[i], value)),
                   !.slider[i].blocked = FALSE]

\* Faulty variant of setMinimum: without the guard.
setMinimumUnguarded(w, i, min_value) ==
    setValue([w EXCEPT !.slider[i].min = min_value], i, w.slider[i].value)

\* FloatSlider.setMinimum
setMinimum(w, i, min_value) ==
    IF w.slider[i].max <= min_value THEN w
    ELSE setValue([w EXCEPT !.slider[i].min = min_value], i, w.slider[i].value)

\* FloatSlider.setMaximum
setMaximum(w, i, max_value) ==
    IF w.slider[i].min >= max_value THEN w
    ELSE setValue([w EXCEPT !.slider[i].max = max_value], i, w.slider[i].value)

\* FloatSlider.value
value(w, i) == w.slider[i].value

\* -------------------------------------------------------------- Parameter

\* _make_finite
_make_finite(x) ==
    IF x = Inf THEN FloatMax ELSE IF x = -Inf THEN -FloatMax ELSE x

\* _guess_initial_step, in hundredths: the result times 100.  The panel only
\* uses 100 * step, and 100 * 1e-2 is exactly 1.0 in float arithmetic.
_guess_initial_step(val, vmin, vmax) ==
    IF IsFinite(vmin) /\ IsFinite(vmax) THEN FSub(vmax, vmin) ELSE U(1)

\* QDoubleSpinBox.setValue: the value is bounded to the box's range.  (It is
\* also rounded to two decimals, which every float of this model has.)
QDoubleSpinBox_setValue(box, v) ==
    [box EXCEPT !.value = IF v < box.minimum THEN box.minimum
                          ELSE IF v > box.maximum THEN box.maximum ELSE v]

\* QDoubleSpinBox(...) followed by setRange(_make_finite(-inf), _make_finite(inf))
NewSpinBox ==
    [value |-> U(0), minimum |-> _make_finite(-Inf), maximum |-> _make_finite(Inf)]

\* The panel of parameter i before Parameter.__init__ has run.
NoPanel ==
    [tmin |-> NewSpinBox, tmax |-> NewSpinBox, fix |-> FALSE, fit |-> FALSE,
     original_value |-> U(0), original_limits |-> <<U(0), U(0)>>,
     connected |-> FALSE]

\* Faulty variant of NewParameter: the limits are set on the slider upper bound first.
NewParameterMaxFirst(w, i) ==
    LET val   == w.minuit.values[i]
        vmin  == w.minuit.limits[i][1]
        vmax  == w.minuit.limits[i][2]
        step  == _guess_initial_step(val, vmin, vmax)
        vmin2 == IF IsFinite(vmin) THEN vmin ELSE FSub(val, step)
        vmax2 == IF IsFinite(vmax) THEN vmax ELSE FAdd(val, step)
        w0 == [w EXCEPT
                 !.slider[i] = NewSlider,
                 !.panel[i] =
                    [tmin |-> QDoubleSpinBox_setValue(NewSpinBox, vmin2),
                     tmax |-> QDoubleSpinBox_setValue(NewSpinBox, vmax2),
                     fix |-> w.minuit.fixed[i], fit |-> FALSE,
                     original_value |-> val,
                     original_limits |-> <<vmin2, vmax2>>,
                     connected |-> FALSE]]
        w1 == setMaximum(w0, i, vmax2)
        w2 == setMinimum(w1, i, vmin2)
        w3 == setValue(w2, i, val)
    IN  [w3 EXCEPT !.panel[i].tmin.minimum = _make_finite(vmin),
                   !.panel[i].tmax.maximum = _make_finite(vmax),
                   !.panel[i].connected = TRUE]

\* Parameter.__init__
NewParameter(w, i) ==
    LET val   == w.minuit.values[i]
        vmin  == w.minuit.limits[i][1]
        vmax  == w.minuit.limits[i][2]
        step  == _guess_initial_step(val, vmin, vmax)
        vmin2 == IF IsFinite(vmin) THEN vmin ELSE FSub(val, step)
        vmax2 == IF IsFinite(vmax) THEN vmax ELSE FAdd(val, step)
        w0 == [w EXCEPT
                 !.slider[i] = NewSlider,
                 !.panel[i] =
                    [tmin |-> QDoubleSpinBox_setValue(NewSpinBox, vmin2),
                     tmax |-> QDoubleSpinBox_setValue(NewSpinBox, vmax2),
                     fix |-> w.minuit.fixed[i], fit |-> FALSE,
                     original_value |-> val,
                     original_limits |-> <<vmin2, vmax2>>,
                     connected |-> FALSE]]
        w1 == setMinimum(w0, i, vmin2)
        w2 == setMaximum(w1, i, vmax2)
        w3 == setValue(w2, i, val)
    IN  [w3 EXCEPT !.panel[i].tmin.minimum = _make_finite(vmin),
                   !.panel[i].tmax.maximum = _make_finite(vmax),
                   !.panel[i].connected = TRUE]

\* Faulty variant of on_min_change: a rejected edit is left in the field.
on_min_change_keep(w, i) ==
    LET tmin == w.panel[i].tmin.value
    IN  IF tmin >= w.panel[i].tmax.value
        THEN w
        ELSE LET then(w1) ==
                     IF w1.exc THEN w1
                     ELSE [w1 EXCEPT !.minuit.limits[i] = <<tmin, w1.minuit.limits[i][2]>>]
             IN  then(setMinimum(w, i, tmin))

\* Parameter.on_min_change
on_min_change(w, i) ==
    LET tmin == w.panel[i].tmin.value
    IN  IF tmin >= w.panel[i].tmax.value
        THEN [w EXCEPT !.panel[i].tmin =
                          QDoubleSpinBox_setValue(@, w.minuit.limits[i][1])]
        ELSE LET then(w1) ==
                     IF w1.exc THEN w1
                     ELSE [w1 EXCEPT !.minuit.limits[i] = <<tmin, w1.minuit.limits[i][2]>>]
             IN  then(setMinimum(w, i, tmin))

\* Parameter.on_max_change
on_max_change(w, i) ==
    LET tmax == w.panel[i].tmax.value
    IN  IF tmax <= w.panel[i].tmin.value
        THEN [w EXCEPT !.panel[i].tmax =
                          QDoubleSpinBox_setValue(@, w.minuit.limits[i][2])]
        ELSE LET then(w1) ==
                     IF w1.exc THEN w1
                     ELSE [w1 EXCEPT !.minuit.limits[i] = <<w1.minuit.limits[i][1], tmax>>]
             IN  then(setMaximum(w, i, tmax))

\* Faulty variant of on_fix_toggled: the Fit toggle is left alone.
on_fix_toggled_only(w, i) ==
    [w EXCEPT !.minuit.fixed[i] = w.panel[i].fix]

\* Parameter.on_fix_toggled
on_fix_toggled(w, i) ==
    LET w1 == [w EXCEPT !.minuit.fixed[i] = w.panel[i].fix]
    IN  IF w1.panel[i].fix THEN [w1 EXCEPT !.panel[i].fit = FALSE] ELSE w1

\* Faulty variant of on_fit_toggled: checking Fit unchecks Fix but leaves the
\* minimizer's fixed flag.
on_fit_toggled_keep_fixed(w, i) ==
    on_parameter_change(
        IF w.panel[i].fit
        THEN [w EXCEPT !.slider[i].enabled = FALSE,
                       !.panel[i].fix = FALSE,
                       !.log.callbacks = @ + 1]
        ELSE [w EXCEPT !.slider[i].enabled = TRUE,
                       !.log.callbacks = @ + 1],
        FALSE, FALSE)

\* Parameter.on_fit_toggled
on_fit_toggled(w, i) ==
    on_parameter_change(
        IF w.panel[i].fit
        THEN [w EXCEPT !.slider[i].enabled = FALSE,
                       !.panel[i].fix = FALSE,
                       !.minuit.fixed[i] = FALSE,
                       !.log.callbacks = @ + 1]
        ELSE [w EXCEPT !.slider[i].enabled = TRUE,
                       !.log.callbacks = @ + 1],
        FALSE, FALSE)

\* Faulty variant of reset: the slider's signals are not blocked.
reset_unblocked(w, i, val, limits) ==
    LET lo == w.panel[i].original_limits[1]
        hi == w.panel[i].original_limits[2]
        v  == IF val = None THEN w.panel[i].original_value ELSE val
        fields(b) ==
            [b EXCEPT !.panel[i].tmin = QDoubleSpinBox_setValue(@, lo),
                      !.panel[i].tmax = QDoubleSpinBox_setValue(@, hi)]
    IN  setValue(IF limits THEN fields(setMaximum(setMinimum(w, i, lo), i, hi)) ELSE w,
                 i, v)

\* Parameter.reset
reset(w, i, val, limits) ==
    LET lo == w.panel[i].original_limits[1]
        hi == w.panel[i].original_limits[2]
        v  == IF val = None THEN w.panel[i].original_value ELSE val
        block(a) == [a EXCEPT !.slider[i].blocked = TRUE]
        fields(b) ==
            [b EXCEPT !.panel[i].tmin = QDoubleSpinBox_setValue(@, lo),
                      !.panel[i].tmax = QDoubleSpinBox_setValue(@, hi)]
        wl == IF limits
              THEN fields(setMaximum(block(setMinimum(block(w), i, lo)), i, hi))
              ELSE w
    IN  [setValue(block(wl), i, v) EXCEPT !.slider[i].blocked = FALSE]

\* ------------------------------------------------- MainWindow, continued

\* for i, x in enumerate(self.parameters): x.reset(val=minuit.values[i], ...)
\* from the k-th panel on.
RECURSIVE ResetPanels(_, _, _)
ResetPanels(w, k, limits) ==
    IF k > Len(parameters) THEN w
    ELSE LET i == parameters[k]
         IN  ResetPanels(reset(w, i, w.minuit.values[i], limits), k + 1, limits)

\* Faulty variant of do_fit: the panels are not refreshed after the fit.
do_fit_no_refresh(w, plot) ==
    LET fitted(w1) == IF ~plot THEN w1 ELSE on_parameter_change(w1, TRUE, w1.ret)
    IN  fitted(fit(w))

\* MainWindow.do_fit; with plot = FALSE the result is in ret.
do_fit(w, plot) ==
    LET refresh(w1, report_success) ==
            IF ~plot THEN [w1 EXCEPT !.ret = report_success]
            ELSE on_parameter_change(w1, TRUE, report_success)
        fitted(w1) == refresh(ResetPanels(w1, 1, FALSE), w1.ret)
    IN  fitted(fit(w))

\* Faulty variant of on_parameter_change: the fixed flags are not restored
\* after the opt-in fit.
on_parameter_change_no_restore(w, from_fit, report_success) ==
    IF ~from_fit
    THEN IF \E i \in Pars : w.panel[i].fit
         THEN LET fitted(w2) ==
                      plot_with_frame([w2 EXCEPT !.log.results = @ + 1], TRUE, w2.ret)
              IN  fitted(do_fit([w EXCEPT !.minuit.fixed =
                                     [i \in Pars |-> ~w.panel[i].fit]], FALSE))
         ELSE plot_with_frame(w, from_fit, report_success)
    ELSE plot_with_frame([w EXCEPT !.log.results = @ + 1], from_fit, report_success)

\* MainWindow.on_parameter_change
on_parameter_change(w, from_fit, report_success) ==
    IF ~from_fit
    THEN IF \E i \in Pars : w.panel[i].fit
         THEN LET saved == w.minuit.fixed
                  fitted(w2) ==
                      plot_with_frame([w2 EXCEPT !.log.results = @ + 1,
                                                 !.minuit.fixed = saved],
                                      TRUE, w2.ret)
              IN  fitted(do_fit([w EXCEPT !.minuit.fixed =
                                     [i \in Pars |-> ~w.panel[i].fit]], FALSE))
         ELSE plot_with_frame(w, from_fit, report_success)
    ELSE plot_with_frame([w EXCEPT !.log.results = @ + 1], from_fit, report_success)

\* MainWindow.on_update_button_clicked
on_update_button_clicked(w) ==
    [w EXCEPT !.slider = [i \in Pars |-> [w.slider[i] EXCEPT !.tracking = w.win.update_button]]]

\* Faulty variant of on_reset_button_clicked: the panels are reset, the minimizer is not.
on_reset_button_clicked_panels_only(w) ==
    on_parameter_change(ResetPanels(MinuitReset(w), 1, TRUE), FALSE, FALSE)

\* MainWindow.on_reset_button_clicked
on_reset_button_clicked(w) ==
    LET w1 == MinuitReset(w)
        w2 == [w1 EXCEPT !.minuit.values = w.win.original_values,
                         !.minuit.limits = w.win.original_limits]
        w3 == ResetPanels(w2, 1, TRUE)
    IN  on_parameter_change(w3, FALSE, FALSE)

\* for par in minuit.parameters: Parameter(minuit, par, ...), from the k-th on.
RECURSIVE NewPanels(_, _)
NewPanels(w, k) ==
    IF k > Len(parameters) THEN w
    ELSE NewPanels(NewParameter(w, parameters[k]), k + 1)

\* MainWindow.__init__ over the minimizer m0, with make_widget's
\* raise_on_exception, the plot routine behaving as o says.
NewMainWindow(m0, raise_on_exception, o) ==
    LET w0 == [slider |-> [i \in Pars |-> NewSlider],
               panel |-> [i \in Pars |-> NoPanel],
               minuit |-> m0,
               win |-> [original_values |-> m0.values,
                        original_limits |-> m0.limits,
                        algo |-> "Migrad", update_button |-> TRUE,
                        raise_on_exception |-> raise_on_exception],
               log |-> EmptyLog, oracle |-> o, exc |-> FALSE, ret |-> FALSE]
        snapshot(w1) ==
            [w1 EXCEPT !.win.original_values = w1.minuit.values,
                       !.win.original_limits = w1.minuit.limits]
    IN  plot_with_frame(snapshot(NewPanels(w0, 1)), FALSE, TRUE)

\* ------------------------------------------------------------ environment

\* What the minimizer can start with: per parameter <<value, lower, upper>>
\* (one parameter without limits, the others limited on both sides), and any
\* fixed flags.
Unlimited == <<U(5), -Inf, Inf>>
Limited == <<U(1), U(0), U(4)>>
Profiles == {[i \in Pars |-> IF i = parameters[1] THEN Unlimited ELSE Limited]}

InitMinuit ==
    {[values |-> [i \in Pars |-> p[i][1]],
      limits |-> [i \in Pars |-> <<p[i][2], p[i][3]>>],
      fixed |-> f, valid |-> FALSE, accurate |-> FALSE] :
        p \in Profiles, f \in [Pars -> BOOLEAN]}

\* What the user types into a min or max field.
EditVals == {U(2), U(3), U(7)}

\* Where the minimizer's unconstrained optimum of a parameter can lie.
FitTargets == {U(1), U(10)}

\* Arguments of the calls on a slider that is used on its own.
SliderArgs == {U(-5), U(3), U(6), U(7)}

Algorithms == {"Migrad", "Scipy", "Simplex"}

\* Outcomes of one handler's calls of the minimizer and of the plot routine.
\* <<valid, accurate, the plot routine raises>>; when the plot routine raises
\* the status is not looked at.
Endings ==
    {<<TRUE, TRUE, FALSE>>, <<TRUE, FALSE, FALSE>>, <<FALSE, TRUE, FALSE>>,
     <<TRUE, TRUE, TRUE>>}

Oracles ==
    {[target |-> t, valid |-> e[1], accurate |-> e[2], plotRaises |-> e[3]] :
        t \in [Pars -> FitTargets], e \in Endings}

Quiet == CHOOSE o \in Oracles : ~o.plotRaises

\* The outcomes that differ in the plot routine only.
PlotOnly == {[Quiet EXCEPT !.plotRaises = b] : b \in BOOLEAN}

\* The worlds a handler can end in, given the world quiet it ends in with the
\* outcome Quiet, the worlds plotted it ends in with the outcomes PlotOnly and
\* the worlds fitted it ends in with any outcome.  Up to its first call of the
\* minimizer or of the plot routine a handler runs the same whatever they do,
\* so their outcomes are told apart only for a handler that calls them.
Outcomes(quiet, plotted, fitted) ==
    IF quiet.log.fits # <<>> THEN fitted
    ELSE IF quiet.log.drawn # <<>> THEN plotted
    ELSE {quiet}

Event(op, par, arg, w) == [op |-> op, par |-> par, arg |-> arg, raised |-> w.exc]

\* The state after a handler that ends in world w.
Commit(w, e) ==
    /\ slider' = w.slider
    /\ panel' = w.panel
    /\ minuit' = w.minuit
    /\ win' = w.win
    /\ log' = w.log
    /\ ev' = e

\* The session accepts events until an exception leaves a handler.
Running == nev < MaxEvents /\ ~ev.raised

\* ---------------------------------------------------------------- session

Init ==
    \E m0 \in InitMinuit, roe \in BOOLEAN, pr \in BOOLEAN :
        /\ ~(roe /\ pr)
        /\ \E w \in {NewMainWindow(m0, roe, [Quiet EXCEPT !.plotRaises = pr])} :
               /\ slider = w.slider
               /\ panel = w.panel
               /\ minuit = w.minuit
               /\ win = w.win
               /\ log = w.log
               /\ ev = Event("init", 0, 0, w)
        /\ nev = 0

\* The world after the handler of that event, under the outcome o.
Dragged(o, i, p) ==
    QSlider_setValue(Begin(o), i, p)

\* The user moves the slider of panel i to the integer position p.
Drag(i, p) ==
    /\ Running
    /\ slider[i].enabled
    /\ p # slider[i].pos
    /\ \E w \in Outcomes(Dragged(Quiet, i, p),
                        {Dragged(o, i, p) : o \in PlotOnly},
                        {Dragged(o, i, p) : o \in Oracles}) :
         Commit(w, Event("drag", i, p, w))
    /\ nev' = nev + 1

\* The world after the handler of that event, under the outcome o.
MinEdited(o, i, m) ==
    on_min_change([Begin(o) EXCEPT !.panel[i].tmin.value = m], i)

\* The user changes the min field of panel i to m.
EditMin(i, m) ==
    /\ Running
    /\ m # panel[i].tmin.value
    /\ panel[i].tmin.minimum <= m /\ m <= panel[i].tmin.maximum
    /\ \E w \in Outcomes(MinEdited(Quiet, i, m),
                        {MinEdited(o, i, m) : o \in PlotOnly},
                        {MinEdited(o, i, m) : o \in Oracles}) :
         Commit(w, Event("min_edit", i, m, w))
    /\ nev' = nev + 1

\* The world after the handler of that event, under the outcome o.
MaxEdited(o, i, m) ==
    on_max_change([Begin(o) EXCEPT !.panel[i].tmax.value = m], i)

\* The user changes the max field of panel i to m.
EditMax(i, m) ==
    /\ Running
    /\ m # panel[i].tmax.value
    /\ panel[i].tmax.minimum <= m /\ m <= panel[i].tmax.maximum
    /\ \E w \in Outcomes(MaxEdited(Quiet, i, m),
                        {MaxEdited(o, i, m) : o \in PlotOnly},
                        {MaxEdited(o, i, m) : o \in Oracles}) :
         Commit(w, Event("max_edit", i, m, w))
    /\ nev' = nev + 1

\* The user clicks the Fix toggle of panel i.
ClickFix(i) ==
    /\ Running
    /\ \E w \in {on_fix_toggled([Begin(Quiet) EXCEPT !.panel[i].fix = ~panel[i].fix], i)} :
           Commit(w, Event("fix", i, 0, w))
    /\ nev' = nev + 1

\* The world after the handler of that event, under the outcome o.
FitClicked(o, i) ==
    on_fit_toggled([Begin(o) EXCEPT !.panel[i].fit = ~panel[i].fit], i)

\* The user clicks the Fit toggle of panel i.
ClickFit(i) ==
    /\ Running
    /\ \E w \in Outcomes(FitClicked(Quiet, i),
                        {FitClicked(o, i) : o \in PlotOnly},
                        {FitClicked(o, i) : o \in Oracles}) :
         Commit(w, Event("fit", i, 0, w))
    /\ nev' = nev + 1

\* The world after the handler of that event, under the outcome o.
FitButtonClicked(o) ==
    do_fit(Begin(o), TRUE)

\* The user clicks the Fit button.
ClickFitButton ==
    /\ Running
    /\ \E w \in Outcomes(FitButtonClicked(Quiet),
                        {FitButtonClicked(o) : o \in PlotOnly},
                        {FitButtonClicked(o) : o \in Oracles}) :
         Commit(w, Event("fit_button", 0, 0, w))
    /\ nev' = nev + 1

\* The user clicks the Continuous toggle.
ClickContinuous ==
    /\ Running
    /\ \E w \in {on_update_button_clicked(
                    [Begin(Quiet) EXCEPT !.win.update_button = ~win.update_button])} :
           Commit(w, Event("continuous", 0, 0, w))
    /\ nev' = nev + 1

\* The world after the handler of that event, under the outcome o.
ResetClicked(o) ==
    on_reset_button_clicked(Begin(o))

\* The user clicks the Reset button.
ClickReset ==
    /\ Running
    /\ \E w \in Outcomes(ResetClicked(Quiet),
                        {ResetClicked(o) : o \in PlotOnly},
                        {ResetClicked(o) : o \in Oracles}) :
         Commit(w, Event("reset", 0, 0, w))
    /\ nev' = nev + 1

\* The user chooses another algorithm.
SelectAlgo(a) ==
    /\ Running
    /\ a # win.algo
    /\ \E w \in {[Begin(Quiet) EXCEPT !.win.algo = a]} :
           Commit(w, Event("algo", 0, 0, w))
    /\ nev' = nev + 1

Next ==
    \/ \E i \in Pars, p \in 0..RES : Drag(i, p)
    \/ \E i \in Pars, m \in EditVals : EditMin(i, m)
    \/ \E i \in Pars, m \in EditVals : EditMax(i, m)
    \/ \E i \in Pars : ClickFix(i)
    \/ \E i \in Pars : ClickFit(i)
    \/ ClickFitButton
    \/ ClickContinuous
    \/ ClickReset
    \/ \E a \in Algorithms : SelectAlgo(a)

Spec == Init /\ [][Next]_vars

\* ------------------------------------------------------- a slider on its own

\* The slider of the first parameter, constructed and connected to nothing.
FS == parameters[1]

SliderInit ==
    /\ slider = [i \in Pars |-> NewSlider]
    /\ panel = [i \in Pars |-> NoPanel]
    /\ minuit = CHOOSE m \in InitMinuit : TRUE
    /\ win = [original_values |-> minuit.values, original_limits |-> minuit.limits,
              algo |-> "Migrad", update_button |-> TRUE, raise_on_exception |-> FALSE]
    /\ log = EmptyLog
    /\ ev = [op |-> "init", par |-> 0, arg |-> 0, raised |-> FALSE]
    /\ nev = 0

SliderSetMinimum(m) ==
    /\ \E w \in {setMinimum(Begin(Quiet), FS, m)} :
           Commit(w, Event("setMinimum", FS, m, w))
    /\ nev' = nev

SliderSetMaximum(m) ==
    /\ \E w \in {setMaximum(Begin(Quiet), FS, m)} :
           Commit(w, Event("setMaximum", FS, m, w))
    /\ nev' = nev

SliderSetValue(v) ==
    /\ \E w \in {setValue(Begin(Quiet), FS, v)} :
           Commit(w, Event("setValue", FS, v, w))
    /\ nev' = nev

SliderDrag(p) ==
    /\ p # slider[FS].pos
    /\ \E w \in {QSlider_setValue(Begin(Quiet), FS, p)} :
           Commit(w, Event("drag", FS, p, w))
    /\ nev' = nev

SliderNext ==
    \/ \E m \in SliderArgs : SliderSetMinimum(m)
    \/ \E m \in SliderArgs : SliderSetMaximum(m)
    \/ \E v \in SliderArgs : SliderSetValue(v)
    \/ \E p \in 0..RES : SliderDrag(p)

SliderSpec == SliderInit /\ [][SliderNext]_vars

\* ----------------------------------------------------------------- claims

\* The event just handled was an edit of a min (max) field that the panel
\* accepts, seen from the state before it.
AcceptedMinEdit(i) ==
    ev'.op = "min_edit" /\ ev'.par = i /\ ev'.arg < panel[i].tmax.value
AcceptedMaxEdit(i) ==
    ev'.op = "max_edit" /\ ev'.par = i /\ ev'.arg > panel[i].tmin.value
RejectedMinEdit(i) ==
    ev'.op = "min_edit" /\ ev'.par = i /\ ev'.arg >= panel[i].tmax.value
RejectedMaxEdit(i) ==
    ev'.op = "max_edit" /\ ev'.par = i /\ ev'.arg <= panel[i].tmin.value

\* The values that the listeners of slider i were notified with.
Notified(i) == {log.emitted[k][2] : k \in {n \in DOMAIN log.emitted : log.emitted[n][1] = i}}

\* C1: in every state that a slider on its own reaches by setMinimum,
\* setMaximum, setValue and drags, min <= value <= max.
C1_ValueWithinWindow ==
    \A i \in Pars : slider[i].min <= slider[i].value /\ slider[i].value <= slider[i].max

\* C2: the Fix and the Fit toggle of a panel are never both checked; after a
\* click that checks Fix, Fit is unchecked; after a click that checks Fit, Fix
\* is unchecked and the parameter is not fixed in the minimizer.
C2_FixFitExclusive ==
    /\ \A i \in Pars : ~(panel[i].fix /\ panel[i].fit)
    /\ \A i \in Pars :
         (ev.op = "fix" /\ ev.par = i /\ panel[i].fix) => ~panel[i].fit
    /\ \A i \in Pars :
         (ev.op = "fit" /\ ev.par = i /\ panel[i].fit)
            => (~panel[i].fix /\ ~minuit.fixed[i])

\* Fix was clicked on in a panel whose slider is still disabled, that is,
\* whose Fit toggle had been checked: the click has unchecked it.
C2_Witness ==
    \E i \in Pars :
        ev.op = "fix" /\ ev.par = i /\ panel[i].fix /\ ~slider[i].enabled
                      /\ ~panel[i].fit

\* The finite working window of a parameter with value v and limits (lo, hi):
\* lo if finite else v - 100*step, hi if finite else v + 100*step, with
\* step = 1e-2*(hi - lo) if both are finite, else 1e-2.
WorkingWindow(v, lo, hi) ==
    LET step100 == IF IsFinite(lo) /\ IsFinite(hi) THEN hi - lo ELSE U(1)
    IN  <<IF IsFinite(lo) THEN lo ELSE v - step100,
          IF IsFinite(hi) THEN hi ELSE v + step100>>

\* C3: after construction the window of every panel's slider is the finite
\* working window of its parameter, and the slider's value is the parameter's.
C3_InitialSliderWindow ==
    ev.op = "init" =>
        \A i \in Pars :
            /\ <<slider[i].min, slider[i].max>> =
                   WorkingWindow(win.original_values[i], win.original_limits[i][1],
                                 win.original_limits[i][2])
            /\ slider[i].value = win.original_values[i]

\* C4: after the Reset handler every panel's slider window and min/max fields
\* are the window captured at the panel's construction and its slider value
\* is the captured value.  (Stated for the sessions in which no panel has Fit
\* enabled; with one, Reset goes on to run a fit, see C5.)
C4_ResetRestoresPanels ==
    (ev.op = "reset" /\ ~ev.raised /\ \A j \in Pars : ~panel[j].fit) =>
        \A i \in Pars :
            /\ <<slider[i].min, slider[i].max>> = panel[i].original_limits
            /\ <<panel[i].tmin.value, panel[i].tmax.value>> = panel[i].original_limits
            /\ slider[i].value = panel[i].original_value

\* C5, as claimed: after the Reset handler the minimizer's values and limits
\* are those captured when the session was constructed.
C5_ResetRestoresMinimizer ==
    ev.op = "reset" =>
        /\ minuit.values = win.original_values
        /\ minuit.limits = win.original_limits

\* C5, amended: after the Reset handler the minimizer's limits are the captured
\* ones, and so is the value of every parameter whose panel does not have Fit
\* enabled (Reset ends with a fit of the Fit-enabled parameters).
C5_ResetRestoresMinimizerAmended ==
    ev.op = "reset" =>
        /\ minuit.limits = win.original_limits
        /\ \A i \in Pars : ~panel[i].fit => minuit.values[i] = win.original_values[i]

\* Reset was clicked with Fit enabled in one panel, whose parameter now has
\* the value of the new fit, and not in another, whose parameter is restored.
C5_Witness ==
    /\ ev.op = "reset"
    /\ \E i \in Pars : panel[i].fit /\ minuit.values[i] # win.original_values[i]
    /\ \E j \in Pars : ~panel[j].fit /\ minuit.values[j] = win.original_values[j]

\* C6: after a fit run from the Fit button every panel's slider has the
\* minimizer's value of its parameter, and the slider windows, the min/max
\* fields and the minimizer's limits are as before.
C6_FitRefreshesSliders ==
    [][(ev'.op = "fit_button" /\ ~ev'.raised) =>
          /\ \A i \in Pars :
                /\ slider'[i].value = minuit'.values[i]
                /\ slider'[i].min = slider[i].min
                /\ slider'[i].max = slider[i].max
                /\ panel'[i].tmin = panel[i].tmin
                /\ panel'[i].tmax = panel[i].tmax
          /\ minuit'.limits = minuit.limits]_vars

\* C7: a rejected min (max) edit puts the minimizer's stored lower (upper)
\* limit into the field and changes neither the sliders nor the minimizer,
\* and the panel-change callback is not called.
C7_RejectedEditReverts ==
    [][\A i \in Pars :
          /\ RejectedMinEdit(i) =>
                /\ panel'[i].tmin.value = minuit.limits[i][1]
                /\ slider' = slider /\ minuit' = minuit /\ log'.callbacks = 0
          /\ RejectedMaxEdit(i) =>
                /\ panel'[i].tmax.value = minuit.limits[i][2]
                /\ slider' = slider /\ minuit' = minuit /\ log'.callbacks = 0]_vars

\* C8: an accepted min edit makes the new minimum the lower bound of the
\* slider's window and the minimizer's limits (new minimum, previous upper
\* limit); an accepted max edit likewise.
C8_AcceptedEditApplies ==
    [][\A i \in Pars :
          /\ (AcceptedMinEdit(i) /\ ~ev'.raised) =>
                /\ slider'[i].min = ev'.arg
                /\ minuit'.limits[i] = <<ev'.arg, minuit.limits[i][2]>>
          /\ (AcceptedMaxEdit(i) /\ ~ev'.raised) =>
                /\ slider'[i].max = ev'.arg
                /\ minuit'.limits[i] = <<minuit.limits[i][1], ev'.arg>>]_vars

\* C9: setMinimum(m) with m >= max and setMaximum(m) with m <= min change
\* nothing of the slider and notify nobody.
C9_GuardedSetIsNoOp ==
    [][/\ (ev'.op = "setMinimum" /\ ev'.arg >= slider[FS].max) =>
              (slider' = slider /\ log'.emitted = <<>>)
       /\ (ev'.op = "setMaximum" /\ ev'.arg <= slider[FS].min) =>
              (slider' = slider /\ log'.emitted = <<>>)]_vars

\* setMinimum was called with an argument at or above the maximum, on a slider
\* that earlier calls have moved away from its initial window.
C9_Witness ==
    /\ ev.op = "setMinimum" /\ ev.arg >= slider[FS].max
    /\ slider[FS].max # NewSlider.max
    /\ log.emitted = <<>>

\* C10: setValue(v) with v < min leaves the value min and the position 0 and
\* notifies the listeners with min; with v > max it leaves the value max and
\* the position at the top and notifies them with max.
C10_SetValueClamps ==
    /\ (ev.op = "setValue" /\ ev.arg < slider[FS].min) =>
          /\ slider[FS].value = slider[FS].min
          /\ slider[FS].pos = 0
          /\ Notified(FS) = {slider[FS].min}
    /\ (ev.op = "setValue" /\ ev.arg > slider[FS].max) =>
          /\ slider[FS].value = slider[FS].max
          /\ slider[FS].pos = RES
          /\ Notified(FS) = {slider[FS].max}

\* C11: when a panel change that does not come from a fit happens with Fit
\* enabled in some panel, the fit runs, every fit of the handler sees the fixed
\* flags (not Fit-enabled), and after the handler the minimizer's fixed flags
\* are those from just before the run, whatever the plot routine did.
C11_OptInFitFixedFlags ==
    [][/\ (ev'.op \in {"drag", "fit", "reset"} /\ \E i \in Pars : panel'[i].fit)
            => log'.fits # <<>>
       /\ (ev'.op \in {"drag", "min_edit", "max_edit", "fit", "reset"}
                /\ log'.fits # <<>>) =>
              /\ \A k \in DOMAIN log'.fits :
                     log'.fits[k] = [i \in Pars |-> ~panel'[i].fit]
              /\ minuit'.fixed =
                     IF ev'.op = "fit" /\ panel'[ev'.par].fit
                     THEN [minuit.fixed EXCEPT ![ev'.par] = FALSE]
                     ELSE minuit.fixed]_vars

\* A slider was dragged while another panel had Fit enabled: the fit saw fixed
\* flags other than the minimizer's, the plot routine raised, and the flags
\* are back.
C11_Witness ==
    /\ ev.op = "drag" /\ ev.raised
    /\ log.fits # <<>> /\ log.fits[1] # minuit.fixed
    /\ \E i \in Pars : panel[i].fit

\* The status overlay that belongs to the minimizer's flags.
StatusOfFit == IF minuit.valid /\ minuit.accurate THEN "success" ELSE "FAILURE"

\* C12, as claimed: every successful redraw of a handler that ran a fit, with
\* any algorithm, shows the status overlay of the minimizer's flags; a
\* successful redraw without a fit shows none.
C12_StatusOverlay ==
    \A k \in DOMAIN log.drawn :
        log.drawn[k].kind = "plot" =>
            log.drawn[k].status = IF log.fits # <<>> THEN StatusOfFit ELSE "none"

\* C12, amended: the status overlay is shown after a fit with Migrad or Scipy;
\* after a fit with Simplex, as without a fit, none is shown.
C12_StatusOverlayAmended ==
    \A k \in DOMAIN log.drawn :
        log.drawn[k].kind = "plot" =>
            log.drawn[k].status = IF log.fits # <<>> /\ win.algo # "Simplex"
                                  THEN StatusOfFit ELSE "none"

\* The Fit button was clicked with Simplex selected, the fit was not both
\* valid and accurate, and the redraw succeeded.
C12_Witness ==
    /\ ev.op = "fit_button" /\ win.algo = "Simplex"
    /\ log.fits # <<>> /\ StatusOfFit = "FAILURE"
    /\ \E k \in DOMAIN log.drawn : log.drawn[k].kind = "plot"

\* C13: when the plot routine raises, the exception leaves the handler if
\* raise-on-exception is set, and else the refresh completes with the traceback
\* drawn and neither the FCN overlay nor the status overlay; either way the
\* refresh leaves the minimizer as the handler had it before: after a drag or
\* a click on Fit button the limits and the fixed flags are those of before the
\* event, and the values those the drag wrote or the fit found.
C13_PlotRaises ==
    /\ [](\A k \in DOMAIN log.drawn :
            /\ log.drawn[k].kind = "raised" =>
                   win.raise_on_exception /\ ev.raised /\ k = Len(log.drawn)
            /\ log.drawn[k].kind = "traceback" =>
                   /\ ~win.raise_on_exception /\ ~ev.raised
                   /\ ~log.drawn[k].fcn /\ log.drawn[k].status = "none")
    /\ [][(/\ ev'.op \in {"drag", "fit_button"}
           /\ \E k \in DOMAIN log'.drawn : log'.drawn[k].kind # "plot") =>
              /\ minuit'.limits = minuit.limits
              /\ minuit'.fixed = minuit.fixed
              /\ (log'.fits = <<>> /\ log'.emitted # <<>>) =>
                     minuit'.values =
                         [minuit.values EXCEPT
                              ![ev'.par] = log'.emitted[Len(log'.emitted)][2]]]_vars

\* A drag reached the panel's callback and its redraw drew the traceback.
C13_Witness ==
    /\ ev.op = "drag" /\ log.callbacks = 1
    /\ \E k \in DOMAIN log.drawn : log.drawn[k].kind = "traceback"

\* C14: a handler of a user event runs the minimizer at most once and calls
\* the plot routine at most once, and the sliders repositioned by a click on
\* the Fit button or on Reset do not call the panel's callback.
C14_AtMostOnce ==
    /\ Len(log.fits) <= 1
    /\ Len(log.drawn) <= 1
    /\ ev.op \in {"fit_button", "reset"} => log.callbacks = 0

\* C15: setValue(v) with min <= v <= max emits no notification, and value()
\* then returns v exactly.
C15_SetValueInWindow ==
    [][(ev'.op = "setValue" /\ slider[FS].min <= ev'.arg /\ ev'.arg <= slider[FS].max) =>
           /\ log'.emitted = <<>>
           /\ value([slider |-> slider'], FS) = ev'.arg]_vars

\* setValue was called with a value strictly inside a window whose two ends
\* had both been set before.
C15_Witness ==
    /\ ev.op = "setValue"
    /\ slider[FS].min # U(0) /\ slider[FS].max # U(1)
    /\ slider[FS].min < ev.arg /\ ev.arg < slider[FS].max
    /\ slider[FS].value = ev.arg

\* C16: after setValue(v) with min <= v <= max the integer position is
\* round((v - min) / (max - min) * RES).
C16_PositionRounded ==
    [][(ev'.op = "setValue" /\ slider[FS].min <= ev'.arg /\ ev'.arg <= slider[FS].max) =>
           slider'[FS].pos =
               RoundHalfEven(FMul(FDiv(FSub(ev'.arg, slider[FS].min),
                                       FSub(slider[FS].max, slider[FS].min)),
                                  IntToFloat(RES)), SCALE)]_vars

\* C17: the window of every slider is non-degenerate, min < max.
C17_WindowNonDegenerate ==
    \A i \in Pars : slider[i].min < slider[i].max

\* A min edit and a max edit were both accepted in one panel and closed the
\* slider's window from both sides.
C17_Witness ==
    /\ ev.op \in {"min_edit", "max_edit"}
    /\ panel[ev.par].original_limits[1] < slider[ev.par].min
    /\ slider[ev.par].max < panel[ev.par].original_limits[2]

\* C18: after any handler a slider is enabled exactly if the Fit toggle of its
\* panel is unchecked; so a click on Fix that unchecks Fit enables the slider.
C18_EnabledIffNotFit ==
    \A i \in Pars : slider[i].enabled <=> ~panel[i].fit

\* C19: after every handler other than that of Reset the minimizer's fixed
\* flag of each parameter equals the state of the Fix toggle of its panel.
C19_FixedEqualsFixToggle ==
    ev.op # "reset" => \A i \in Pars : minuit.fixed[i] = panel[i].fix

\* A drag ran the opt-in fit with a parameter fixed for the fit only: its Fix
\* toggle is unchecked and its fixed flag is cleared again.
C19_Witness ==
    /\ ev.op = "drag" /\ log.fits # <<>>
    /\ \E i \in Pars : log.fits[1][i] /\ ~panel[i].fix /\ ~minuit.fixed[i]

\* C20: after an accepted edit of a min or max field the minimizer's value of
\* that parameter lies within its limits.
C20_ValueWithinLimits ==
    [][\A i \in Pars :
           (AcceptedMinEdit(i) \/ AcceptedMaxEdit(i)) =>
               /\ minuit'.limits[i][1] <= minuit'.values[i]
               /\ minuit'.values[i] <= minuit'.limits[i][2]]_vars

=============================================================================
